---- MODULE Spec2Model ----
(***************************************************************************)
(* Model of whatwg-infra (src/lib.rs): the noncharacter classifier, the    *)
(* newline normaliser / stripper, the ASCII-whitespace trimmer and the     *)
(* cursor-advancing code point collector.                                  *)
(*                                                                         *)
(* A Rust &str is modelled as what it is: a sequence of UTF-8 bytes.       *)
(* chars() decodes it, len() counts bytes, and s[a..b] is a byte slice     *)
(* that panics unless both ends are char boundaries.                       *)
(***************************************************************************)
EXTENDS Integers, Sequences, FiniteSets, TLC

VARIABLES
    s,                  \* collect_codepoints: the &str argument, as UTF-8 bytes
    position,           \* collect_codepoints: the caller's *position (usize)
    position0,          \* the caller's cursor before its first call
    pc,                 \* "idle" | "loop" | "panicked"
    entry,              \* the value of *position when the current / last call was entered
    rest,               \* number of chars the iterator `rest` has passed
    starting_position,  \* local starting_position
    predicate,          \* the predicate of the current / last call (set of chars it accepts)
    invoked,            \* number of predicate invocations in the current / last call
    result,             \* the String returned by the last call (UTF-8 bytes)
    outcome,            \* "none" | "running" | "returned" | "panicked"
    collected,          \* concatenation of the results of the calls so far
    input,              \* text transforms: the &str argument (scalar values)
    output,             \* text transforms: the returned string (scalar values)
    op,                 \* text transforms: which function produced output
    c,                  \* classifier: the char argument
    verdict             \* classifier: "unknown" | "true" | "false"

vars == <<s, position, position0, pc, entry, rest, starting_position, predicate,
          invoked, result, outcome, collected, input, output, op, c, verdict>>

collectVars == <<s, position, position0, pc, entry, rest, starting_position, predicate,
                 invoked, result, outcome, collected>>
textVars == <<input, output, op>>
classVars == <<c, verdict>>

----------------------------------------------------------------------------
(* Bounds *)

MaxLen == 3         \* longest string (in scalar values) given to collect_codepoints
MaxTextLen == 3     \* longest string (in scalar values) given to the text transforms
Window == 2         \* classifier inputs lie within Window of a range boundary

----------------------------------------------------------------------------
(* Scalar values used as inputs *)

TAB == 9
LF == 10
FF == 12
CR == 13
SPACE == 32

\* '1', 'a', U+00E9 (2 bytes), U+1F600 (4 bytes, supplementary plane)
CollectAlphabet == {49, 97, 233, 128512}

\* the five ASCII whitespace code points, U+000B, 'a', U+00A0 (2 bytes)
TextAlphabet == {TAB, LF, 11, FF, CR, SPACE, 97, 160}

RECURSIVE StringsUpTo(_, _)
StringsUpTo(A, n) ==
    IF n = 0 THEN {<<>>}
    ELSE LET shorter == StringsUpTo(A, n - 1)
         IN  shorter \cup {Append(w, a) : w \in {x \in shorter : Len(x) = n - 1}, a \in A}

----------------------------------------------------------------------------
(* UTF-8: char::encode_utf8, str::chars, str::is_char_boundary *)

encode_utf8(ch) ==
    IF ch < 128 THEN <<ch>>
    ELSE IF ch < 2048 THEN <<192 + (ch \div 64), 128 + (ch % 64)>>
    ELSE IF ch < 65536 THEN
        <<224 + (ch \div 4096), 128 + ((ch \div 64) % 64), 128 + (ch % 64)>>
    ELSE <<240 + (ch \div 262144), 128 + ((ch \div 4096) % 64),
           128 + ((ch \div 64) % 64), 128 + (ch % 64)>>

\* String::from over scalar values: the UTF-8 bytes of a sequence of chars
RECURSIVE as_bytes(_)
as_bytes(str) ==
    IF str = <<>> THEN <<>>
    ELSE encode_utf8(Head(str)) \o as_bytes(Tail(str))

\* width of the encoded char that starts with lead byte b
utf8_char_width(b) ==
    IF b < 128 THEN 1
    ELSE IF b < 224 THEN 2
    ELSE IF b < 240 THEN 3
    ELSE 4

decode_utf8(bs) ==
    LET w == utf8_char_width(bs[1])
    IN  IF w = 1 THEN bs[1]
        ELSE IF w = 2 THEN (bs[1] - 192) * 64 + (bs[2] - 128)
        ELSE IF w = 3 THEN (bs[1] - 224) * 4096 + (bs[2] - 128) * 64 + (bs[3] - 128)
        ELSE (bs[1] - 240) * 262144 + (bs[2] - 128) * 4096
             + (bs[3] - 128) * 64 + (bs[4] - 128)

\* str::chars: the scalar values of a well-formed UTF-8 byte string
RECURSIVE chars(_)
chars(bytes) ==
    IF bytes = <<>> THEN <<>>
    ELSE LET w == utf8_char_width(bytes[1])
         IN  <<decode_utf8(SubSeq(bytes, 1, w))>> \o chars(SubSeq(bytes, w + 1, Len(bytes)))

\* str::is_char_boundary(index)
is_char_boundary(bytes, index) ==
    \/ index = 0
    \/ index = Len(bytes)
    \/ /\ index < Len(bytes)
       /\ ~(bytes[index + 1] \in 128..191)

\* &s[a..b]: defined only when the range is ordered, in bounds and on boundaries
slice_ok(bytes, a, b) ==
    /\ a <= b
    /\ b <= Len(bytes)
    /\ is_char_boundary(bytes, a)
    /\ is_char_boundary(bytes, b)

slice(bytes, a, b) == SubSeq(bytes, a + 1, b)

----------------------------------------------------------------------------
(* collect_codepoints *)

CollectStrings == {as_bytes(w) : w \in StringsUpTo(CollectAlphabet, MaxLen)}

Predicates == SUBSET CollectAlphabet

\* cursors a caller may start from: every boundary of str, and one beyond the end
StartCursors(bytes) ==
    {i \in 0..(Len(bytes) + 1) : i > Len(bytes) \/ is_char_boundary(bytes, i)}

IsDegenerateNoPositionCheck(bytes, pos) == bytes = <<>>

\* line 155: s.is_empty() || position >= &mut s.len()
IsDegenerate(bytes, pos) == bytes = <<>> \/ pos >= Len(bytes)

\* line 163: the iterator s.chars().skip(*position) still has an item
rest_has_next(bytes, passed) == passed < Len(chars(bytes))

rest_next(bytes, passed) == chars(bytes)[passed + 1]

\* line 164: position < &mut s.len() && predicate(&c)
loop_continues(bytes, pos, passed, p) ==
    /\ rest_has_next(bytes, passed)
    /\ pos < Len(bytes)
    /\ rest_next(bytes, passed) \in p

\* line 164: predicate(&c) is evaluated only when the left operand holds
predicate_called(bytes, pos, passed) ==
    rest_has_next(bytes, passed) /\ pos < Len(bytes)

InitCollect ==
    /\ s \in CollectStrings
    /\ position0 \in StartCursors(s)
    /\ position = position0
    /\ pc = "idle"
    /\ entry = position0
    /\ rest = 0
    /\ starting_position = 0
    /\ predicate = {}
    /\ invoked = 0
    /\ result = <<>>
    /\ outcome = "none"
    /\ collected = <<>>

\* lines 151-161: entry, the degenerate early return, and the set-up of the loop
Call(p) ==
    /\ pc = "idle"
    /\ predicate' = p
    /\ invoked' = 0
    /\ entry' = position
    /\ IF IsDegenerate(s, position)
       THEN /\ result' = <<>>
            /\ outcome' = "returned"
            /\ pc' = "idle"
            /\ UNCHANGED <<rest, starting_position>>
       ELSE /\ result' = <<>>
            /\ outcome' = "running"
            /\ pc' = "loop"
            /\ rest' = position
            /\ starting_position' = position
    /\ UNCHANGED <<s, position, position0, collected>>

\* lines 163-165: one iteration that keeps going
Iterate ==
    /\ pc = "loop"
    /\ loop_continues(s, position, rest, predicate)
    /\ position' = position + 1
    /\ rest' = rest + 1
    /\ invoked' = invoked + 1
    /\ UNCHANGED <<s, position0, pc, entry, starting_position, predicate, result,
                   outcome, collected>>

\* lines 163-176: the loop ends (iterator exhausted or break), then the slice
Finish ==
    /\ pc = "loop"
    /\ ~loop_continues(s, position, rest, predicate)
    /\ invoked' = IF predicate_called(s, position, rest) THEN invoked + 1 ELSE invoked
    /\ IF slice_ok(s, starting_position, position)
       THEN /\ result' = slice(s, starting_position, position)
            /\ outcome' = "returned"
            /\ pc' = "idle"
            /\ collected' = collected \o slice(s, starting_position, position)
       ELSE /\ result' = <<>>
            /\ outcome' = "panicked"
            /\ pc' = "panicked"
            /\ collected' = collected
    /\ UNCHANGED <<s, position, position0, entry, rest, starting_position, predicate>>

IdleCollect ==
    /\ s = <<>>
    /\ position0 = 0
    /\ position = 0
    /\ pc = "idle"
    /\ entry = 0
    /\ rest = 0
    /\ starting_position = 0
    /\ predicate = {}
    /\ invoked = 0
    /\ result = <<>>
    /\ outcome = "none"
    /\ collected = <<>>

----------------------------------------------------------------------------
(* normalize_newlines, strip_newlines, trim_ascii_whitespace *)

TextStrings == StringsUpTo(TextAlphabet, MaxTextLen)

\* str::len of a string given as scalar values
len(str) == Len(as_bytes(str))

\* str::replace: every non-overlapping match of `from`, left to right, becomes `to`
RECURSIVE replace(_, _, _)
replace(str, from, to) ==
    IF Len(str) < Len(from) THEN str
    ELSE IF SubSeq(str, 1, Len(from)) = from
         THEN to \o replace(SubSeq(str, Len(from) + 1, Len(str)), from, to)
         ELSE <<Head(str)>> \o replace(Tail(str), from, to)

normalize_newlines_cr_first(str) ==
    replace(replace(str, <<CR>>, <<LF>>), <<CR, LF>>, <<LF>>)

\* lines 101-105
normalize_newlines(str) ==
    replace(replace(str, <<CR, LF>>, <<LF>>), <<CR>>, <<LF>>)

strip_keeps_lf_only(ch) == ch # LF

\* line 120: c != '\u{000A}' && c != '\u{000D}'
strip_keeps(ch) == ch # LF /\ ch # CR

\* lines 116-124: the loop; returns the locals result and stripped_codepoints
RECURSIVE strip_loop(_, _, _)
strip_loop(str, res, stripped_codepoints) ==
    IF str = <<>> THEN [result |-> res, stripped_codepoints |-> stripped_codepoints]
    ELSE IF strip_keeps(Head(str))
         THEN strip_loop(Tail(str), Append(res, Head(str)), stripped_codepoints + 1)
         ELSE strip_loop(Tail(str), res, stripped_codepoints)

\* lines 126-128: s.len() - stripped_codepoints is a usize subtraction
strip_shrink_ok(str) ==
    LET r == strip_loop(str, <<>>, 0)
    IN  len(r.result) # len(str) => len(str) - r.stripped_codepoints >= 0

\* lines 115-131
strip_newlines(str) == strip_loop(str, <<>>, 0).result

is_ascii_whitespace_with_vt(ch) == ch \in {TAB, LF, 11, FF, CR, SPACE}

\* char::is_ascii_whitespace
is_ascii_whitespace(ch) == ch \in {TAB, LF, FF, CR, SPACE}

RECURSIVE trim_start(_)
trim_start(str) ==
    IF str # <<>> /\ is_ascii_whitespace(Head(str)) THEN trim_start(Tail(str)) ELSE str

RECURSIVE trim_end(_)
trim_end(str) ==
    IF str # <<>> /\ is_ascii_whitespace(str[Len(str)])
    THEN trim_end(SubSeq(str, 1, Len(str) - 1))
    ELSE str

\* what the doc comment of lines 133-134 describes: trim, then every inner
\* run of ASCII whitespace becomes one U+0020
RECURSIVE collapse(_)
collapse(str) ==
    IF str = <<>> THEN <<>>
    ELSE IF is_ascii_whitespace(Head(str))
         THEN <<SPACE>> \o collapse(trim_start(str))
         ELSE <<Head(str)>> \o collapse(Tail(str))

trim_and_collapse(str) == collapse(trim_end(trim_start(str)))

\* lines 140-142: s.trim_matches(|c| c.is_ascii_whitespace())
trim_ascii_whitespace(str) == trim_end(trim_start(str))

InitText ==
    /\ input \in TextStrings
    /\ output = <<>>
    /\ op = "none"

Normalize ==
    /\ op' = "normalize_newlines"
    /\ output' = normalize_newlines(input)
    /\ UNCHANGED input

Strip ==
    /\ IF strip_shrink_ok(input)
       THEN op' = "strip_newlines" /\ output' = strip_newlines(input)
       ELSE op' = "panicked" /\ output' = <<>>
    /\ UNCHANGED input

Trim ==
    /\ op' = "trim_ascii_whitespace"
    /\ output' = trim_ascii_whitespace(input)
    /\ UNCHANGED input

----------------------------------------------------------------------------
(* is_noncharacter *)

NoncharacterPatternWithout8FFFF ==
    (64976..65007) \cup
    { 65534, 65535, 131070, 131071, 196606, 196607, 262142, 262143,
      327678, 327679, 393214, 393215, 458750, 458751, 524286, 524287,
      589822, 655358, 655359, 720894, 720895, 786430, 786431,
      851966, 851967, 917502, 917503, 983038, 983039, 1048574, 1048575,
      1114110, 1114111 }

\* lines 26-37: the patterns of matches!, U+FDD0..=U+FDEF and the 34 listed values
NoncharacterPattern ==
    (64976..65007) \cup
    { 65534, 65535, 131070, 131071, 196606, 196607, 262142, 262143,
      327678, 327679, 393214, 393215, 458750, 458751, 524286, 524287,
      589822, 589823, 655358, 655359, 720894, 720895, 786430, 786431,
      851966, 851967, 917502, 917503, 983038, 983039, 1048574, 1048575,
      1114110, 1114111 }

\* lines 25-38
is_noncharacter(ch) == ch \in NoncharacterPattern

\* a Rust char: U+0000..U+10FFFF without the surrogates U+D800..U+DFFF
IsScalarValue(x) == x \in 0..1114111 /\ ~(x \in 55296..57343)

RangeEdges ==
    {0, 55295, 57344, 64976, 65007}
    \cup {n * 65536 + 65534 : n \in 0..16}
    \cup {n * 65536 : n \in 1..16}

ClassifierInputs ==
    {x \in UNION {(e - Window)..(e + Window) : e \in RangeEdges} : IsScalarValue(x)}

InitClass ==
    /\ c \in ClassifierInputs
    /\ verdict = "unknown"

Classify ==
    /\ verdict' = IF is_noncharacter(c) THEN "true" ELSE "false"
    /\ UNCHANGED c

----------------------------------------------------------------------------
(* Specifications *)

IdleText == input = <<>> /\ output = <<>> /\ op = "none"
IdleClass == c = 0 /\ verdict = "unknown"

Init == InitCollect /\ IdleText /\ IdleClass

Next ==
    \/ \E p \in Predicates : Call(p) /\ UNCHANGED <<textVars, classVars>>
    \/ Iterate /\ UNCHANGED <<textVars, classVars>>
    \/ Finish /\ UNCHANGED <<textVars, classVars>>

Spec == Init /\ [][Next]_vars

InitTextSpec == IdleCollect /\ InitText /\ IdleClass

NextText ==
    \/ Normalize /\ UNCHANGED <<collectVars, classVars>>
    \/ Strip /\ UNCHANGED <<collectVars, classVars>>
    \/ Trim /\ UNCHANGED <<collectVars, classVars>>

SpecText == InitTextSpec /\ [][NextText]_vars

InitClassSpec == IdleCollect /\ IdleText /\ InitClass

NextClass == Classify /\ UNCHANGED <<collectVars, textVars>>

SpecClass == InitClassSpec /\ [][NextClass]_vars

----------------------------------------------------------------------------
(* Properties of collect_codepoints, checked under Spec *)

\* the longest prefix of cs whose scalar values all satisfy p
RECURSIVE MaximalRun(_, _)
MaximalRun(cs, p) ==
    IF cs = <<>> \/ ~(Head(cs) \in p) THEN <<>>
    ELSE <<Head(cs)>> \o MaximalRun(Tail(cs), p)

\* the scalar values of bytes that follow the boundary b
ScalarsFrom(bytes, b) == chars(SubSeq(bytes, b + 1, Len(bytes)))

\* the number of scalar values of bytes that precede the boundary b
ScalarsBefore(bytes, b) == Len(chars(SubSeq(bytes, 1, b)))

ValidBoundary(bytes, b) == b \in 0..Len(bytes) /\ is_char_boundary(bytes, b)

\* C1: a call entered at a valid boundary returns exactly the maximal run of
\* scalar values from that boundary that satisfy the predicate, and leaves the
\* cursor at the boundary right after that run.
C1_ReturnsMaximalRun ==
    (outcome = "returned" /\ ValidBoundary(s, entry)) =>
        LET run == as_bytes(MaximalRun(ScalarsFrom(s, entry), predicate))
        IN  /\ result = run
            /\ position = entry + Len(run)

\* C2: a call entered at a valid boundary never panics; the final slice never
\* splits a multi-byte scalar value.
C2_NeverPanics ==
    ValidBoundary(s, entry) => outcome # "panicked"

\* C3: from a valid starting cursor, the cursor is at every moment at most
\* len(s) and on a boundary between whole scalar values.
C3_CursorOnBoundary ==
    ValidBoundary(s, position0) => ValidBoundary(s, position)

\* C4: chained calls: each call starts examining scalar values at the boundary
\* where the cursor stands, and the results of the calls so far concatenate to
\* the substring between the first cursor and the current cursor.
C4_Chaining ==
    ValidBoundary(s, position0) =>
        /\ pc = "loop" =>
              rest - (position - starting_position) = ScalarsBefore(s, starting_position)
        /\ outcome = "returned" =>
              collected = SubSeq(s, position0 + 1, position)

\* C5: a call on an empty string, or with the cursor at or beyond the end,
\* returns the empty string, leaves the cursor where it was and never invokes
\* the predicate.
C5_DegenerateCall ==
    (outcome # "none" /\ (Len(s) = 0 \/ entry >= Len(s))) =>
        /\ outcome = "returned"
        /\ pc = "idle"
        /\ result = <<>>
        /\ position = entry
        /\ invoked = 0

C5_Witness ==
    /\ outcome = "returned"
    /\ Len(s) > 0
    /\ entry >= Len(s)
    /\ collected # <<>>
    /\ predicate # {}

----------------------------------------------------------------------------
(* Properties of the text transforms, checked under SpecText *)

\* CR LF pairs dropped to their LF, every other CR turned into LF, by position
RECURSIVE NewlinesNormalized(_, _)
NewlinesNormalized(str, i) ==
    IF i > Len(str) THEN <<>>
    ELSE IF str[i] = 13 /\ i < Len(str) /\ str[i + 1] = 10
         THEN NewlinesNormalized(str, i + 1)
    ELSE IF str[i] = 13 THEN <<10>> \o NewlinesNormalized(str, i + 1)
    ELSE <<str[i]>> \o NewlinesNormalized(str, i + 1)

Count(str, x) == Cardinality({i \in 1..Len(str) : str[i] = x})

CrLfPairs(str) ==
    Cardinality({i \in 1..(Len(str) - 1) : str[i] = 13 /\ str[i + 1] = 10})

\* C6: normalize_newlines turns each CR LF pair into one LF and each other CR
\* into LF, keeps everything else in order, leaves no CR, and never lengthens.
C6_NormalizeNewlines ==
    op = "normalize_newlines" =>
        /\ output = NewlinesNormalized(input, 1)
        /\ Count(output, 13) = 0
        /\ Count(output, 10) = Count(input, 10) + Count(input, 13) - CrLfPairs(input)
        /\ Len(output) = Len(input) - CrLfPairs(input)
        /\ len(output) <= len(input)

C6_Witness ==
    /\ op = "normalize_newlines"
    /\ input = <<13, 10, 13>>
    /\ output = <<10, 10>>

\* C7: strip_newlines keeps exactly the scalar values other than LF and CR, in
\* order; the output has no LF or CR and stripping it again changes nothing.
C7_StripNewlines ==
    op \in {"strip_newlines", "panicked"} =>
        /\ op = "strip_newlines"
        /\ output = SelectSeq(input, LAMBDA x : x # 10 /\ x # 13)
        /\ Count(output, 10) = 0
        /\ Count(output, 13) = 0
        /\ strip_newlines(output) = output

C7_Witness ==
    /\ op = "strip_newlines"
    /\ Count(input, 10) > 0
    /\ Count(input, 13) > 0
    /\ output # <<>>

Whitespace5 == {9, 10, 12, 13, 32}

AllIn(str, S) == \A i \in 1..Len(str) : str[i] \in S

NonWhitespaceAt(str) == {i \in 1..Len(str) : ~(str[i] \in Whitespace5)}

Min(S) == CHOOSE x \in S : \A y \in S : x <= y
Max(S) == CHOOSE x \in S : \A y \in S : x >= y

----------------------------------------------------------------------------
(* Property of is_noncharacter, checked under SpecClass *)

\* C10: is_noncharacter(c) holds exactly when c is in U+FDD0..U+FDEF or is
\* U+nFFFE / U+nFFFF for a plane n in 0..16; that is 66 scalar values.
C10_Noncharacter ==
    /\ verdict # "unknown" =>
          (verdict = "true" <=> (\/ (c >= 64976 /\ c <= 65007)
                                 \/ (c % 65536 >= 65534 /\ c \div 65536 <= 16)))
    /\ Cardinality(NoncharacterPattern) = 66
    /\ \A x \in NoncharacterPattern : IsScalarValue(x)

C10_Witness ==
    /\ verdict = "true"
    /\ c = 589823

====
